---- MODULE Spec2Model ----
(***************************************************************************)
(* The task API of backend/app/main.py: five handlers over the tasks table *)
(* and the suggestion endpoint.                                            *)
(*                                                                         *)
(* Spec      serves the requests one at a time: each action is one whole   *)
(*           handler, from the decoding of the body to the response.       *)
(* SpecConc  lets the handlers of several requests interleave at their     *)
(*           await points (every statement sent to the database).          *)
(*                                                                         *)
(* Both are built from the same operators on the table (Insert,            *)
(* SelectById, Flush, DeleteRow).                                          *)
(***************************************************************************)
EXTENDS Integers, FiniteSets, Sequences, TLC

\* Bounds of the model.
MaxId == 2
MaxOpen == 2
NReq == 2

VARIABLES
    store,  \* the tasks table: a set of rows [id, title, completed]
    live,   \* history: the ids inserted by a committed create and not removed by a committed delete
    last,   \* Spec: the last request served and its response
    req,    \* SpecConc: the requests in flight, one per slot
    open    \* the number of storage sessions that are open

vars == <<store, live, last, req, open>>

Ids == 1..MaxId
Slots == 1..NReq

\* JSON values of a request body: a field may be absent, and a title may be null.
Missing == "<missing>"
Null == "<null>"
Titles == {"", "Buy milk"}
BodyTitles == Titles \cup {Missing, Null}
BodyCompleted == {Missing, "true", "false"}
Bodies == [title : BodyTitles, completed : BodyCompleted]
NoBody == [title |-> Missing, completed |-> Missing]

----------------------------------------------------------------------------
\* schemas.py

\* completed: bool, decoded from the JSON literal.
ParseBool(c) == c = "true"

\* title: str is required and must be a string: absent and null are rejected.
TitleIsStrNoNullCheck(body) == body.title # Missing
TitleIsStr(body) == body.title \notin {Missing, Null}

TaskCreateValid(body) == TitleIsStr(body)

\* completed: bool = False
TaskCreateDefaultTrue(body) ==
    [title |-> body.title,
     completed |-> IF body.completed = Missing THEN TRUE ELSE ParseBool(body.completed)]
TaskCreate(body) ==
    [title |-> body.title,
     completed |-> IF body.completed = Missing THEN FALSE ELSE ParseBool(body.completed)]

\* title: str and completed: bool, both required.
TaskUpdateValidPartial(body) == TitleIsStr(body)
TaskUpdateValid(body) == TitleIsStr(body) /\ body.completed # Missing

TaskUpdate(body) == [title |-> body.title, completed |-> ParseBool(body.completed)]

\* TaskOut: id, title, completed of a row.
TaskOut(row) == [id |-> row.id, title |-> row.title, completed |-> row.completed]

----------------------------------------------------------------------------
\* The table, as the statements of main.py use it.

IdsOf(s) == {r.id : r \in s}

\* The primary key the database assigns to an inserted row: one no stored row has.
NewIds(s) == Ids \ IdsOf(s)

\* db.add(Task(title=..., completed=...)); commit: INSERT of one row.
Insert(s, id, task) ==
    s \cup {[id |-> id, title |-> task.title, completed |-> task.completed]}

\* select(Task).filter(Task.id == task_id): the rows with that id.
SelectById(s, id) == {r \in s : r.id = id}

\* The columns the unit of work writes at commit: an attribute assigned the value
\* it was loaded with has no net change and is left out of the UPDATE.
Dirty(loaded, task) ==
    {c \in {"title", "completed"} : task[c] # loaded[c]}

\* db_task.title = ...; db_task.completed = ...; commit, on the row loaded as
\* `loaded`: UPDATE tasks SET <dirty columns> WHERE id = loaded.id.
FlushTitleOnly(s, loaded, task) ==
    {IF r.id = loaded.id THEN [r EXCEPT !.title = task.title] ELSE r : r \in s}
Flush(s, loaded, task) ==
    LET d == Dirty(loaded, task) IN
    {IF r.id = loaded.id
        THEN [id |-> r.id,
              title |-> IF "title" \in d THEN task.title ELSE r.title,
              completed |-> IF "completed" \in d THEN task.completed ELSE r.completed]
        ELSE r : r \in s}

\* db.delete(db_task); commit: DELETE FROM tasks WHERE id = loaded.id.
DeleteRowKeeps(s, loaded) == s
DeleteRow(s, loaded) == {r \in s : r.id # loaded.id}

\* result.scalars().all(): the rows in some order, each once.
Orderings(s) ==
    {q \in [1..Cardinality(s) -> s] : \A i, j \in 1..Cardinality(s) : q[i] = q[j] => i = j}

----------------------------------------------------------------------------
\* Responses.

NotFound == "Task not found"
Response(status, detail, out) == [status |-> status, detail |-> detail, out |-> out]
Ok(out) == Response(200, <<>>, out)
Http404 == Response(404, <<NotFound>>, <<>>)
Http422 == Response(422, <<"validation error">>, <<>>)
Http500 == Response(500, <<"Internal Server Error">>, <<>>)

\* A storage failure may hit any statement of a handler.
FailPoints == {"none", "execute", "commit", "refresh"}

Result(s, resp) == [store |-> s, resp |-> resp]

\* create_task
CreateTaskH(s, body, newId, fp) ==
    IF ~TaskCreateValid(body) THEN Result(s, Http422)
    ELSE IF fp = "commit" THEN Result(s, Http500)
    ELSE LET s2 == Insert(s, newId, TaskCreate(body))
             got == SelectById(s2, newId)
         IN IF fp = "refresh" \/ Cardinality(got) # 1 THEN Result(s2, Http500)
            ELSE Result(s2, Ok(<<TaskOut(CHOOSE r \in got : TRUE)>>))

\* read_tasks, with the order the rows come back in
ReadTasksPendingOnly(s, order, fp) ==
    IF fp = "execute" THEN Result(s, Http500)
    ELSE Result(s, Ok(SelectSeq([i \in 1..Len(order) |-> TaskOut(order[i])],
                                LAMBDA t : ~t.completed)))
ReadTasksH(s, order, fp) ==
    IF fp = "execute" THEN Result(s, Http500)
    ELSE Result(s, Ok([i \in 1..Len(order) |-> TaskOut(order[i])]))

\* read_task
ReadTaskNo404(s, id, fp) ==
    LET got == SelectById(s, id) IN
    IF fp = "execute" \/ Cardinality(got) > 1 THEN Result(s, Http500)
    ELSE IF got = {} THEN Result(s, Ok(<<>>))
    ELSE Result(s, Ok(<<TaskOut(CHOOSE r \in got : TRUE)>>))
ReadTaskH(s, id, fp) ==
    LET got == SelectById(s, id) IN
    IF fp = "execute" \/ Cardinality(got) > 1 THEN Result(s, Http500)
    ELSE IF got = {} THEN Result(s, Http404)
    ELSE Result(s, Ok(<<TaskOut(CHOOSE r \in got : TRUE)>>))

\* update_task
UpdateTaskH(s, id, body, fp) ==
    IF ~TaskUpdateValid(body) THEN Result(s, Http422)
    ELSE LET got == SelectById(s, id) IN
    IF fp = "execute" \/ Cardinality(got) > 1 THEN Result(s, Http500)
    ELSE IF got = {} THEN Result(s, Http404)
    ELSE IF fp = "commit" THEN Result(s, Http500)
    ELSE LET s2 == Flush(s, CHOOSE r \in got : TRUE, TaskUpdate(body))
             now == SelectById(s2, id)
         IN IF fp = "refresh" \/ Cardinality(now) # 1 THEN Result(s2, Http500)
            ELSE Result(s2, Ok(<<TaskOut(CHOOSE r \in now : TRUE)>>))

\* delete_task
DeleteTaskH(s, id, fp) ==
    LET got == SelectById(s, id) IN
    IF fp = "execute" \/ Cardinality(got) > 1 THEN Result(s, Http500)
    ELSE IF got = {} THEN Result(s, Http404)
    ELSE IF fp = "commit" THEN Result(s, Http500)
    ELSE LET loaded == CHOOSE r \in got : TRUE
         IN Result(DeleteRow(s, loaded), Ok(<<TaskOut(loaded)>>))

\* suggest_task_completion: what ollama_client.chat does, and str(e) of a failure.
Outcomes == {"ok", "ConnectionError", "ResponseError", "KeyError"}
Describe(outcome) ==
    CASE outcome = "ConnectionError" -> "Failed to connect to Ollama"
      [] outcome = "ResponseError" -> "model not found"
      [] outcome = "KeyError" -> "'message'"
      [] OTHER -> ""
Replies == {"1. Go to the shop"}

SuggestSwallowsKeyError(title, outcome, reply) ==
    IF title = Missing THEN Http422
    ELSE IF outcome \in {"ok", "KeyError"} THEN Response(200, <<"suggestion", reply>>, <<>>)
    ELSE Response(500, <<"Ollama error: ", Describe(outcome)>>, <<>>)
SuggestH(title, outcome, reply) ==
    IF title = Missing THEN Http422
    ELSE IF outcome = "ok" THEN Response(200, <<"suggestion", reply>>, <<>>)
    ELSE Response(500, <<"Ollama error: ", Describe(outcome)>>, <<>>)

----------------------------------------------------------------------------
\* Storage sessions.

\* get_db: db = SessionLocal()
Acquire(o) == o + 1

\* get_db: finally: db.close().  db is the session whose execute, commit, refresh
\* and delete the handlers await, so close() is a coroutine function as well; the
\* call on line 38 is not awaited: it builds a coroutine that never runs, and the
\* session stays open until the garbage collector reclaims it (Collect).
Closed(o) == o - 1
CloseNotAwaited(o) == o

\* Depends(get_db): the session a task request has opened, after its exit.
GetDb(o) == CloseNotAwaited(Acquire(o))

\* suggest_task_completion has no Depends(get_db).
SuggestSessions(o) == o

----------------------------------------------------------------------------
\* State.

NoTask == [title |-> Missing, completed |-> FALSE]
NoRow == [id |-> 0, title |-> Missing, completed |-> FALSE]
Idle == [pc |-> "idle", op |-> "none", id |-> 0, task |-> NoTask, loaded |-> NoRow, status |-> 0]
Exit(status) == [Idle EXCEPT !.pc = "exit", !.status = status]

InFlight == {r \in Slots : req[r].pc # "idle"}

Init ==
    /\ store = {}
    /\ live = {}
    /\ last = [op |-> "none", id |-> 0, body |-> NoBody, ext |-> "none",
               status |-> 0, detail |-> <<>>, out |-> <<>>]
    /\ req = [r \in Slots |-> Idle]
    /\ open = 0

\* last.ext is what the external call of the request did.
Served(op, id, body, ext, resp) ==
    last' = [op |-> op, id |-> id, body |-> body, ext |-> ext,
             status |-> resp.status, detail |-> resp.detail, out |-> resp.out]

----------------------------------------------------------------------------
\* Spec: one whole handler per step.

\* POST /tasks/
CreateTask(body, newId, fp) ==
    /\ InFlight = {} /\ open < MaxOpen
    /\ LET res == CreateTaskH(store, body, newId, fp) IN
        /\ store' = res.store
        /\ live' = IF TaskCreateValid(body) /\ fp # "commit" THEN live \cup {newId} ELSE live
        /\ Served("create", 0, body, "none", res.resp)
    /\ open' = GetDb(open)
    /\ UNCHANGED req

\* GET /tasks/
ReadTasks(order, fp) ==
    /\ InFlight = {} /\ open < MaxOpen
    /\ LET res == ReadTasksH(store, order, fp) IN
        /\ store' = res.store
        /\ Served("list", 0, NoBody, "none", res.resp)
    /\ open' = GetDb(open)
    /\ UNCHANGED <<live, req>>

\* GET /tasks/{task_id}
ReadTask(id, fp) ==
    /\ InFlight = {} /\ open < MaxOpen
    /\ LET res == ReadTaskH(store, id, fp) IN
        /\ store' = res.store
        /\ Served("read", id, NoBody, "none", res.resp)
    /\ open' = GetDb(open)
    /\ UNCHANGED <<live, req>>

\* PUT /tasks/{task_id}
UpdateTask(id, body, fp) ==
    /\ InFlight = {} /\ open < MaxOpen
    /\ LET res == UpdateTaskH(store, id, body, fp) IN
        /\ store' = res.store
        /\ Served("update", id, body, "none", res.resp)
    /\ open' = GetDb(open)
    /\ UNCHANGED <<live, req>>

\* DELETE /tasks/{task_id}
DeleteTask(id, fp) ==
    /\ InFlight = {} /\ open < MaxOpen
    /\ LET res == DeleteTaskH(store, id, fp) IN
        /\ store' = res.store
        /\ live' = IF SelectById(store, id) # {} /\ fp = "none" THEN live \ {id} ELSE live
        /\ Served("delete", id, NoBody, "none", res.resp)
    /\ open' = GetDb(open)
    /\ UNCHANGED req

\* POST /suggestions/?title=...
SuggestTaskCompletion(title, outcome, reply) ==
    /\ InFlight = {}
    /\ Served("suggest", 0, [title |-> title, completed |-> Missing], outcome,
              SuggestH(title, outcome, reply))
    /\ open' = SuggestSessions(open)
    /\ UNCHANGED <<store, live, req>>

\* The garbage collector reclaims a session that no request in flight holds.
Collect ==
    /\ open > Cardinality(InFlight)
    /\ open' = Closed(open)
    /\ UNCHANGED <<store, live, last, req>>

Next ==
    \/ \E body \in Bodies, newId \in NewIds(store), fp \in {"none", "commit", "refresh"} :
            CreateTask(body, newId, fp)
    \/ \E order \in Orderings(store), fp \in {"none", "execute"} : ReadTasks(order, fp)
    \/ \E id \in Ids, fp \in {"none", "execute"} : ReadTask(id, fp)
    \/ \E id \in Ids, body \in Bodies, fp \in FailPoints : UpdateTask(id, body, fp)
    \/ \E id \in Ids, fp \in {"none", "execute", "commit"} : DeleteTask(id, fp)
    \/ \E title \in Titles \cup {Missing}, outcome \in Outcomes, reply \in Replies :
            SuggestTaskCompletion(title, outcome, reply)
    \/ Collect

Spec == Init /\ [][Next]_vars

----------------------------------------------------------------------------
\* SpecConc: the handlers of the requests in flight, one statement per step.
\* The response leaves with the request; a slot keeps its status only.

Ops == {"create", "list", "read", "update", "delete"}

Decoded(op, body) ==
    IF op = "create" THEN TaskCreate(body)
    ELSE IF op = "update" THEN TaskUpdate(body)
    ELSE NoTask

\* The request arrives: get_db opens its session, then the body is validated.
Begin(r, op, id, body) ==
    /\ req[r].pc = "idle"
    /\ open < MaxOpen
    /\ open' = Acquire(open)
    /\ req' = [req EXCEPT ![r] =
            IF \/ op = "create" /\ ~TaskCreateValid(body)
               \/ op = "update" /\ ~TaskUpdateValid(body)
            THEN Exit(422)
            ELSE [pc |-> "run", op |-> op, id |-> id, task |-> Decoded(op, body),
                  loaded |-> NoRow, status |-> 0]]
    /\ UNCHANGED <<store, live, last>>

\* create_task: db.add(db_task); await db.commit()
CreateCommit(r, newId, fail) ==
    /\ req[r].pc = "run" /\ req[r].op = "create"
    /\ IF fail
          THEN /\ req' = [req EXCEPT ![r] = Exit(500)]
               /\ UNCHANGED <<store, live>>
          ELSE /\ store' = Insert(store, newId, req[r].task)
               /\ live' = live \cup {newId}
               /\ req' = [req EXCEPT ![r].pc = "refresh", ![r].id = newId]
    /\ UNCHANGED <<last, open>>

\* read_tasks, read_task, update_task, delete_task: await db.execute(select(...))
Execute(r, fail) ==
    /\ req[r].pc = "run" /\ req[r].op \in {"list", "read", "update", "delete"}
    /\ LET got == SelectById(store, req[r].id) IN
       req' = [req EXCEPT ![r] =
            IF fail \/ (req[r].op # "list" /\ Cardinality(got) > 1) THEN Exit(500)
            ELSE IF req[r].op = "list" THEN Exit(200)
            ELSE IF got = {} THEN Exit(404)
            ELSE IF req[r].op = "read" THEN Exit(200)
            ELSE [req[r] EXCEPT !.pc = "loaded", !.loaded = CHOOSE row \in got : TRUE]]
    /\ UNCHANGED <<store, live, last, open>>

\* update_task: db_task.title = ...; db_task.completed = ...; await db.commit().
\* An UPDATE that matches no row raises (the row was deleted meanwhile); no UPDATE
\* is sent when no attribute changed.
UpdateCommit(r, fail) ==
    /\ req[r].pc = "loaded" /\ req[r].op = "update"
    /\ IF fail \/ (Dirty(req[r].loaded, req[r].task) # {}
                    /\ SelectById(store, req[r].loaded.id) = {})
          THEN /\ req' = [req EXCEPT ![r] = Exit(500)]
               /\ UNCHANGED store
          ELSE /\ store' = Flush(store, req[r].loaded, req[r].task)
               /\ req' = [req EXCEPT ![r].pc = "refresh"]
    /\ UNCHANGED <<live, last, open>>

\* delete_task: await db.delete(db_task); await db.commit(); return db_task
DeleteCommit(r, fail) ==
    /\ req[r].pc = "loaded" /\ req[r].op = "delete"
    /\ IF fail
          THEN /\ req' = [req EXCEPT ![r] = Exit(500)]
               /\ UNCHANGED <<store, live>>
          ELSE /\ store' = DeleteRow(store, req[r].loaded)
               /\ live' = live \ {req[r].loaded.id}
               /\ req' = [req EXCEPT ![r] = Exit(200)]
    /\ UNCHANGED <<last, open>>

\* create_task, update_task: await db.refresh(db_task); return db_task
Refresh(r, fail) ==
    /\ req[r].pc = "refresh"
    /\ req' = [req EXCEPT ![r] =
            IF fail \/ Cardinality(SelectById(store, req[r].id)) # 1
            THEN Exit(500) ELSE Exit(200)]
    /\ UNCHANGED <<store, live, last, open>>

\* The handler has returned or raised: get_db's finally runs, the response leaves.
Finish(r) ==
    /\ req[r].pc = "exit"
    /\ req' = [req EXCEPT ![r] = Idle]
    /\ open' = CloseNotAwaited(open)
    /\ UNCHANGED <<store, live, last>>

NextConc ==
    \/ \E r \in Slots, op \in Ops :
        \E id \in (IF op \in {"read", "update", "delete"} THEN Ids ELSE {0}),
           body \in (IF op \in {"create", "update"} THEN Bodies ELSE {NoBody}) :
            Begin(r, op, id, body)
    \/ \E r \in Slots, newId \in NewIds(store), fail \in BOOLEAN : CreateCommit(r, newId, fail)
    \/ \E r \in Slots, fail \in BOOLEAN : Execute(r, fail)
    \/ \E r \in Slots, fail \in BOOLEAN : UpdateCommit(r, fail)
    \/ \E r \in Slots, fail \in BOOLEAN : DeleteCommit(r, fail)
    \/ \E r \in Slots, fail \in BOOLEAN : Refresh(r, fail)
    \/ \E r \in Slots : Finish(r)
    \/ Collect

SpecConc == Init /\ [][NextConc]_vars

----------------------------------------------------------------------------
\* Properties.  Under Spec every step but Collect serves one request, and Collect
\* is the only step that lowers open: in a serving step last' holds the request
\* and its response, store the table it found, store' the table it left.

ServedStep(op) == open' >= open /\ last'.op = op

\* No storage failure hit the request.
Healthy == last'.status # 500

TheRow(s, id) == CHOOSE r \in SelectById(s, id) : TRUE

\* C1: a POST /tasks/ with a valid body adds exactly one row, whose id is not null
\* and is the id of no row stored before (ids stay unique), whose title is the
\* given one and whose completed is the given value, or false when omitted; the
\* response is that row, and a GET /tasks/{id} right after returns the same Task.
C1_CreateAddsOneFreshRow ==
    [][(ServedStep("create") /\ TaskCreateValid(last'.body) /\ Healthy) =>
        /\ last'.status = 200
        /\ Len(last'.out) = 1
        /\ LET t == last'.out[1] IN
            /\ t.id \in Ids \ IdsOf(store)
            /\ store' = store \cup {t}
            /\ Cardinality(store') = Cardinality(store) + 1
            /\ \A r1, r2 \in store' : r1.id = r2.id => r1 = r2
            /\ t.title = last'.body.title
            /\ t.completed = (last'.body.completed = "true")
            /\ ReadTaskH(store', t.id, "none").resp = Ok(<<t>>)
    ]_vars

C1_Witness ==
    /\ last.op = "create" /\ last.status = 200
    /\ last.body.completed = Missing
    /\ Cardinality(store) = 2

\* C2: a PUT /tasks/{id} on a stored id sets the title and completed of that row
\* to the values of the request and changes nothing else: the id stays, every
\* other row stays, no row is added or removed, and a GET right after returns the
\* new title and completed.
C2_UpdateChangesOnlyThatRow ==
    [][(ServedStep("update") /\ TaskUpdateValid(last'.body)
            /\ SelectById(store, last'.id) # {} /\ Healthy) =>
        LET old == TheRow(store, last'.id)
            new == [id |-> last'.id, title |-> last'.body.title,
                    completed |-> (last'.body.completed = "true")]
        IN /\ last'.status = 200
           /\ store' = (store \ {old}) \cup {new}
           /\ Cardinality(store') = Cardinality(store)
           /\ last'.out = <<new>>
           /\ ReadTaskH(store', last'.id, "none").resp = Ok(<<new>>)
    ]_vars

C2_Witness ==
    /\ last.op = "update" /\ last.status = 200
    /\ Cardinality(store) = 2
    /\ \E r \in store : r.id = last.id /\ r.completed /\ r.title = "Buy milk"

\* C3: a DELETE /tasks/{id} on a stored id removes that row and no other and
\* returns the row as it was; the id then names no row (GET answers 404), and only
\* a create can make it name one again.
C3_DeleteRemovesThatRow ==
    [][/\ (ServedStep("delete") /\ SelectById(store, last'.id) # {} /\ Healthy) =>
            LET old == TheRow(store, last'.id) IN
            /\ last'.status = 200
            /\ store' = store \ {old}
            /\ last'.out = <<old>>
            /\ ReadTaskH(store', last'.id, "none").resp = Http404
       /\ \A id \in Ids :
            (SelectById(store, id) = {} /\ SelectById(store', id) # {}) => ServedStep("create")
    ]_vars

C3_Witness ==
    /\ last.op = "delete" /\ last.status = 200
    /\ store # {} /\ last.id \notin IdsOf(store)

\* C4: GET, PUT and DELETE on an id that is not stored answer 404 "Task not
\* found" and leave the table as it was.
C4_AbsentIdIs404 ==
    [][((ServedStep("read") \/ ServedStep("delete")
            \/ (ServedStep("update") /\ TaskUpdateValid(last'.body)))
          /\ SelectById(store, last'.id) = {}) =>
        /\ store' = store
        /\ Healthy => (last'.status = 404 /\ last'.detail = <<NotFound>> /\ last'.out = <<>>)
    ]_vars

C4_Witness ==
    /\ last.op \in {"read", "update", "delete"} /\ last.status = 404
    /\ last.id \notin IdsOf(store) /\ store # {}

\* C5: GET /tasks/ returns exactly the rows created and not deleted, each once
\* (the empty sequence when there are none), and changes nothing.
C5_ListReturnsLiveRows ==
    [][(ServedStep("list") /\ Healthy) =>
        /\ last'.status = 200
        /\ Len(last'.out) = Cardinality(live)
        /\ {last'.out[i].id : i \in 1..Len(last'.out)} = live
        /\ {last'.out[i] : i \in 1..Len(last'.out)} = store
        /\ store' = store
    ]_vars

C5_Witness ==
    /\ last.op = "list" /\ last.status = 200
    /\ Len(last.out) = 1 /\ last.out[1].id = 2

\* C6, as claimed: no stored row has an empty or null title.
C6_TitleNonEmpty == \A r \in store : r.title \notin {"", Null}

\* C6, amended: every stored row has a title that is a string (never null, never
\* absent); the string may be empty.
C6_TitleIsString == \A r \in store : r.title \in Titles

C6_Witness ==
    /\ \E r \in store : r.title = ""
    /\ last.op = "update" /\ last.status = 200 /\ last.body.title = ""

\* C8: a POST /tasks/ without a title, or a PUT /tasks/{id} without a title or
\* without completed, is answered 422 (not 404) and leaves the table as it was,
\* also when the id of the PUT is stored.
C8_MalformedBodyRejected ==
    [][((ServedStep("create") /\ ~TitleIsStr(last'.body))
          \/ (ServedStep("update")
                /\ (~TitleIsStr(last'.body) \/ last'.body.completed = Missing))) =>
        /\ last'.status = 422
        /\ last'.status # Http404.status
        /\ store' = store
    ]_vars

C8_Witness ==
    /\ last.op = "update" /\ last.status = 422
    /\ last.body.title \in Titles /\ last.body.completed = Missing
    /\ last.id \in IdsOf(store)

\* C9: when the call to the model service fails, POST /suggestions/ answers 500
\* with the description of the failure in its detail, the table is unchanged and
\* no storage session is opened.
C9_SuggestionFailureIs500 ==
    [][(ServedStep("suggest") /\ last'.body.title # Missing /\ last'.ext # "ok") =>
        /\ last'.status = 500
        /\ last'.detail = <<"Ollama error: ", Describe(last'.ext)>>
        /\ Describe(last'.ext) # ""
        /\ store' = store
        /\ open' = open
    ]_vars

C9_Witness ==
    /\ last.op = "suggest" /\ last.status = 500 /\ last.ext = "KeyError"
    /\ store # {}

\* C7, as claimed: under SpecConc, whenever a row that stays present changes, a
\* PUT on its id commits in that step and the row's (title, completed) becomes
\* the whole pair of that PUT.
C7_WholePairOfOneRequest ==
    [][\A id \in Ids :
        LET before == SelectById(store, id)
            after == SelectById(store', id)
        IN (before # {} /\ after # {} /\ after # before) =>
            \E r \in Slots :
                /\ req[r].pc = "loaded" /\ req[r].op = "update" /\ req[r].loaded.id = id
                /\ req'[r].pc = "refresh"
                /\ after = {[id |-> id, title |-> req[r].task.title,
                             completed |-> req[r].task.completed]}
    ]_vars

\* C10, as claimed: under SpecConc, no session outlives its request: the open
\* sessions are never more than the requests in flight.
C10_NoSessionOutlivesRequest == open <= Cardinality(InFlight)

====
